---- MODULE Spec2Model ----
(***************************************************************************)
(* A model of iced_table: the divider drag state machine (divider.rs) and  *)
(* the column width solver and table composition (lib.rs).                 *)
(*                                                                         *)
(* Lengths are f32 in the source.  The model represents a length as an     *)
(* integer number of 1/Scale pixels, with Scale chosen so that every       *)
(* division the solver performs on the inputs drawn here is exact.  The    *)
(* arithmetic of the model is therefore the exact arithmetic of the        *)
(* source's expressions; f32 rounding is not represented.                  *)
(***************************************************************************)
EXTENDS Integers, Sequences, FiniteSets, TLC

VARIABLES
    state,              \* divider.rs State {drag_origin, is_divider_hovered}
    bounds,             \* layout.bounds() of the divider widget
    event,              \* the event of the last on_event call
    cursor_position,    \* the cursor_position of the last on_event call
    status,             \* the event::Status the last on_event call returned
    shell,              \* the messages the last on_event call published
    forwarded,          \* what the wrapped content received in the last call
    presses,            \* captured left presses so far
    releases,           \* on_release messages published so far
    columns,            \* the Width of each column, as Column::width returns it
    min_width,          \* Table::min_width
    calculated_widths,  \* the widths distribute_fill_widths returned
    unused_width,       \* the unused width it returned
    pc,                 \* where the table build stands
    on_column_drag,     \* Table::on_column_drag is Some
    on_column_release,  \* Table::on_column_release is Some
    header,             \* the header cells with_divider built
    header_state,       \* the State of each header cell's divider
    messages,           \* the messages the last event published to the caller
    rows,               \* the number of rows in Table::rows
    footer_id,          \* Table::footer is Some
    column_footer,      \* for each column, whether Column::footer returns Some
    body,               \* the body cells body_container built, row by row
    footer,             \* the footer cells, when the table shows a footer
    padding,            \* the right padding of the table container
    viewport,           \* the absolute offset the body scrollable last reported
    draw_cursor,        \* the cursor_position of the last draw call
    quad,               \* the quad the last draw call filled, if it filled one
    interaction         \* the last mouse_interaction call: the content's hint
                        \* and the hint returned

dividerVars == <<state, bounds, event, cursor_position, status, shell,
                 forwarded, presses, releases>>

solverVars == <<columns, min_width, calculated_widths, unused_width, pc>>

tableVars == <<on_column_drag, on_column_release, header, header_state, messages>>

composeVars == <<rows, footer_id, column_footer, body, footer, padding, viewport>>

drawVars == <<draw_cursor, quad, interaction>>

vars == <<dividerVars, solverVars, tableVars, composeVars, drawVars>>

----------------------------------------------------------------------------
(* Bounds of the model *)

MaxDrags == 2
MaxCols == 3
MaxProportion == 2
MaxRows == 1

----------------------------------------------------------------------------
(* Units *)

RECURSIVE GCD(_, _)
GCD(a, b) == IF b = 0 THEN a ELSE GCD(b, a % b)

RECURSIVE LCMUpTo(_)
LCMUpTo(n) == IF n <= 1 THEN 1 ELSE LET l == LCMUpTo(n - 1) IN (l * n) \div GCD(l, n)

\* One pixel, in model units: divisible by every total fill proportion.
Scale == LCMUpTo(MaxCols * MaxProportion)

Px(n) == n * Scale

\* Option<T>
None == <<>>
Some(v) == <<v>>

Point(px, py) == [x |-> px, y |-> py]

Rectangle(rx, ry, rw, rh) == [x |-> rx, y |-> ry, width |-> rw, height |-> rh]

\* Rectangle::contains, as called by the hover tests: half-open on both axes.
Contains(r, p) ==
    /\ r.x <= p.x
    /\ p.x < r.x + r.width
    /\ r.y <= p.y
    /\ p.y < r.y + r.height

----------------------------------------------------------------------------
(* divider.rs *)

\* Table::divider_width, the default the table passes to Divider::new.
divider_width == 2

\* The margin added on each side of the strip by is_divider_hovered.
hover_margin == 5

divider_bounds(width, b) ==
    [b EXCEPT !.x = b.x + b.width - width, !.width = width]

\* Faulty variant: the margin is added on the right only.
is_divider_hovered_right_only(width, b, cursor) ==
    LET d == divider_bounds(width, b)
    IN Contains([d EXCEPT !.width = d.width + Px(hover_margin)], cursor)

is_divider_hovered(width, b, cursor) ==
    LET d == divider_bounds(width, b)
        h == [d EXCEPT !.x = d.x - Px(hover_margin),
                       !.width = d.width + Px(2 * hover_margin)]
    IN Contains(h, cursor)

\* Events
ButtonPressed(button) == [kind |-> "ButtonPressed", button |-> button]
ButtonReleased(button) == [kind |-> "ButtonReleased", button |-> button]
CursorMoved(position) == [kind |-> "CursorMoved", position |-> position]
Keyboard == [kind |-> "Keyboard"]

\* Messages of one divider: on_drag(offset) and on_release.
on_drag(offset) == [msg |-> "on_drag", offset |-> offset]
on_release == [msg |-> "on_release"]
content_message == [msg |-> "content"]

\* What one on_event call yields: the new State, the returned status, the
\* messages published to the shell, and whether the content was called.
Handled(st, published) ==
    [state |-> st, status |-> "Captured", published |-> published,
     to_content |-> FALSE]

\* Faulty variant: the divider answers Ignored whatever the content answered.
Forward_ignored(st, content) ==
    [state |-> st, status |-> "Ignored", published |-> content.published,
     to_content |-> TRUE]

\* The match falls through: the event goes to the content, whose status
\* and messages are the content's own.
Forward(st, content) ==
    [state |-> st, status |-> content.status, published |-> content.published,
     to_content |-> TRUE]

\* Faulty variant: a press is captured wherever the cursor is.
on_button_pressed_anywhere(st, cursor, content) ==
    Handled([st EXCEPT !.drag_origin = Some(cursor)], <<>>)

on_button_pressed(st, cursor, content) ==
    IF st.is_divider_hovered
    THEN Handled([st EXCEPT !.drag_origin = Some(cursor)], <<>>)
    ELSE Forward(st, content)

\* Faulty variant: the release is captured and published whatever the drag state.
on_button_released_always(st, content) ==
    Handled([st EXCEPT !.drag_origin = None], <<on_release>>)

\* Faulty variant: the release publishes but leaves the origin in place.
on_button_released_keep(st, content) ==
    IF st.drag_origin # None
    THEN Handled(st, <<on_release>>)
    ELSE Forward(st, content)

\* drag_origin.take() leaves None in both branches.
on_button_released(st, content) ==
    IF st.drag_origin # None
    THEN Handled([st EXCEPT !.drag_origin = None], <<on_release>>)
    ELSE Forward([st EXCEPT !.drag_origin = None], content)

\* Faulty variant: the delta is incremental, the origin follows the cursor.
on_cursor_moved_incremental(st, position, content) ==
    IF st.drag_origin # None
    THEN Handled([st EXCEPT !.drag_origin = Some(position)],
                 <<on_drag(position.x - st.drag_origin[1].x)>>)
    ELSE Forward(st, content)

\* Faulty variant: a move over the divider publishes although no drag is active.
on_cursor_moved_hover(st, position, content) ==
    IF st.drag_origin # None
    THEN Handled(st, <<on_drag(position.x - st.drag_origin[1].x)>>)
    ELSE IF st.is_divider_hovered
         THEN Handled(st, <<on_drag(0)>>)
         ELSE Forward(st, content)

\* Faulty variant: the drag is dropped when the cursor has left the divider.
on_cursor_moved_revalidated(st, position, content) ==
    IF st.drag_origin # None /\ st.is_divider_hovered
    THEN Handled(st, <<on_drag(position.x - st.drag_origin[1].x)>>)
    ELSE Forward([st EXCEPT !.drag_origin = None], content)

on_cursor_moved(st, position, content) ==
    IF st.drag_origin # None
    THEN Handled(st, <<on_drag(position.x - st.drag_origin[1].x)>>)
    ELSE Forward(st, content)

\* Divider::on_event.  content is what the wrapped content would answer if
\* the event reached it.
on_event(st, width, b, e, cursor, content) ==
    LET s1 == [st EXCEPT !.is_divider_hovered = is_divider_hovered(width, b, cursor)]
    IN  CASE e = ButtonPressed("Left") -> on_button_pressed(s1, cursor, content)
          [] e = ButtonReleased("Left") -> on_button_released(s1, content)
          [] e.kind = "CursorMoved" -> on_cursor_moved(s1, e.position, content)
          [] OTHER -> Forward(s1, content)

----------------------------------------------------------------------------
(* lib.rs: Width and distribute_fill_widths *)

Fixed(w) == [kind |-> "Fixed", width |-> w]
Resizable(initial, offset) == [kind |-> "Resizable", initial |-> initial, offset |-> offset]
Fill(proportion, minimum) == [kind |-> "Fill", proportion |-> proportion, minimum |-> minimum]

CalculatedWidth(current, is_resizable) ==
    [current |-> current, is_resizable |-> is_resizable]

\* Faulty variant: the smaller of the two is taken.
Max_smaller(a, b) == IF a <= b THEN a ELSE b

\* f32::max
Max(a, b) == IF a >= b THEN a ELSE b

\* Faulty variant: the offset of a resizable column is not subtracted.
RECURSIVE remaining_width_no_offset(_, _)
remaining_width_no_offset(cols, w) ==
    IF cols = <<>> THEN w
    ELSE LET c == Head(cols)
             rest == remaining_width_no_offset(Tail(cols), w)
         IN  CASE c.kind = "Fixed" -> rest - c.width
               [] c.kind = "Resizable" -> rest - c.initial
               [] c.kind = "Fill" -> rest

\* The first pass, remaining_width: min_width less every fixed and every
\* resizable current width.
RECURSIVE remaining_width(_, _)
remaining_width(cols, w) ==
    IF cols = <<>> THEN w
    ELSE LET c == Head(cols)
             rest == remaining_width(Tail(cols), w)
         IN  CASE c.kind = "Fixed" -> rest - c.width
               [] c.kind = "Resizable" -> rest - (c.initial + c.offset)
               [] c.kind = "Fill" -> rest

\* The first pass, fill_proportion: the sum of the Fill proportions.
RECURSIVE fill_proportion(_)
fill_proportion(cols) ==
    IF cols = <<>> THEN 0
    ELSE LET c == Head(cols)
         IN  (IF c.kind = "Fill" THEN c.proportion ELSE 0)
                 + fill_proportion(Tail(cols))

\* Faulty variant: the remaining width is not divided into parts.
part_width_undivided(remaining, proportion) ==
    IF proportion # 0 THEN remaining ELSE 0

\* remaining / fill_proportion: exact on the inputs drawn here, Scale
\* being a multiple of every total proportion.
part_width(remaining, proportion) ==
    IF proportion # 0 THEN remaining \div proportion ELSE 0

\* Faulty variant: the minimum is not applied.
calculated_width_no_minimum(c, part) ==
    CASE c.kind = "Fixed" -> CalculatedWidth(c.width, FALSE)
      [] c.kind = "Resizable" -> CalculatedWidth(c.initial + c.offset, TRUE)
      [] c.kind = "Fill" -> CalculatedWidth(c.proportion * part, FALSE)

\* The second pass, for one column.
calculated_width(c, part) ==
    CASE c.kind = "Fixed" -> CalculatedWidth(c.width, FALSE)
      [] c.kind = "Resizable" -> CalculatedWidth(c.initial + c.offset, TRUE)
      [] c.kind = "Fill" ->
            CalculatedWidth(Max(c.proportion * part, c.minimum), FALSE)

\* Faulty variant: a remaining width of zero is reported too.
unused_width_of_nonnegative(remaining, proportion) ==
    IF remaining >= 0 /\ proportion = 0 THEN Some(remaining) ELSE None

unused_width_of(remaining, proportion) ==
    IF remaining > 0 /\ proportion = 0 THEN Some(remaining) ELSE None

\* Faulty variant: the widths come out in the reverse order of the columns.
distribute_fill_widths_reversed(cols, w) ==
    LET remaining == remaining_width(cols, w)
        proportion == fill_proportion(cols)
        part == part_width(remaining, proportion)
    IN  [calculated_widths |->
             [i \in DOMAIN cols |-> calculated_width(cols[Len(cols) + 1 - i], part)],
         unused_width |-> unused_width_of(remaining, proportion)]

distribute_fill_widths(cols, w) ==
    LET remaining == remaining_width(cols, w)
        proportion == fill_proportion(cols)
        part == part_width(remaining, proportion)
    IN  [calculated_widths |-> [i \in DOMAIN cols |-> calculated_width(cols[i], part)],
         unused_width |-> unused_width_of(remaining, proportion)]

----------------------------------------------------------------------------
(* lib.rs: the table's header row *)

\* The messages of the table: on_column_drag(index, offset) and the
\* on_column_release message.
column_drag(index, offset) == [msg |-> "on_column_drag", index |-> index, offset |-> offset]
column_release == [msg |-> "on_column_release"]

\* Faulty variant: the closure carries the index of the next column.
with_divider_next_index(index, calculated, drag, release) ==
    [divider |-> drag /\ release /\ calculated.is_resizable,
     width |-> calculated.current,
     index |-> index + 1]

\* Faulty variant: every column gets a divider when the callbacks are given.
with_divider_always(index, calculated, drag, release) ==
    [divider |-> drag /\ release,
     width |-> calculated.current,
     index |-> index]

\* with_divider: a container of width current, holding a Divider whose
\* on_drag closes over index when both callbacks are given and the
\* column is resizable, and the bare content otherwise.
with_divider(index, calculated, drag, release) ==
    [divider |-> drag /\ release /\ calculated.is_resizable,
     width |-> calculated.current,
     index |-> index]

\* The header row of Element::from(table): one cell per column, built from
\* the column's calculated width; enumerate() counts from 0.
header_row(calculated, drag, release) ==
    [k \in DOMAIN calculated |-> with_divider(k - 1, calculated[k], drag, release)]

\* The header row is 30 px high here.
header_height == Px(30)

RECURSIVE cell_x(_, _)
cell_x(cells, k) == IF k <= 1 THEN 0 ELSE cell_x(cells, k - 1) + cells[k - 1].width

\* The bounds the row lays cell k out in: the cells side by side from x = 0.
cell_bounds(cells, k) ==
    Rectangle(cell_x(cells, k), 0, cells[k].width, header_height)

\* The content of a header cell takes no event and publishes nothing.
header_content == [status |-> "Ignored", published |-> <<>>]

\* What the Divider of cell k makes of an event; a cell without a divider
\* has no State to change and publishes nothing.
cell_on_event(cells, states, k, e, cursor) ==
    IF cells[k].divider
    THEN on_event(states[k], Px(divider_width), cell_bounds(cells, k), e, cursor,
                  header_content)
    ELSE Forward(states[k], header_content)

\* The Message a divider message becomes through the closures with_divider
\* gave the Divider.
cell_message(cell, m) ==
    IF m.msg = "on_drag" THEN column_drag(cell.index, m.offset) ELSE column_release

RECURSIVE row_messages(_, _, _, _, _)
row_messages(cells, states, k, e, cursor) ==
    IF k > Len(cells) THEN <<>>
    ELSE LET r == cell_on_event(cells, states, k, e, cursor)
         IN  [n \in DOMAIN r.published |-> cell_message(cells[k], r.published[n])]
                 \o row_messages(cells, states, k + 1, e, cursor)

\* The caller's update, as the spec describes it: a drag message sets the
\* offset of the column it names; the release message persists every offset
\* into its initial width and resets it; a sync message moves the header
\* and footer scrollables and leaves the columns alone.
apply_message(cols, m) ==
    CASE m.msg = "on_column_drag" ->
            [cols EXCEPT ![m.index + 1].offset = m.offset]
      [] m.msg = "on_column_release" ->
            [k \in DOMAIN cols |->
                IF cols[k].kind = "Resizable"
                THEN Resizable(cols[k].initial + cols[k].offset, 0)
                ELSE cols[k]]
      [] OTHER -> cols

RECURSIVE apply_messages(_, _)
apply_messages(cols, msgs) ==
    IF msgs = <<>> THEN cols
    ELSE apply_messages(apply_message(cols, Head(msgs)), Tail(msgs))

----------------------------------------------------------------------------
(* lib.rs: the body, the footer and the table container *)

\* Table::cell_padding, the default of table().
cell_padding == 4

\* Faulty variant: the room for the divider is added to the cell's width
\* instead of to its padding.
body_container_widened(col_index, row_index, calculated) ==
    [divider |-> FALSE,
     width |-> calculated.current
                   + (IF calculated.is_resizable THEN Px(divider_width) ELSE 0),
     padding_right |-> Px(cell_padding),
     col_index |-> col_index,
     row_index |-> row_index]

\* body_container: a plain container of width current around the cell; a
\* resizable column's cell leaves room on the right for the divider of
\* the header.  The callbacks are not among its arguments.
body_container(col_index, row_index, calculated) ==
    [divider |-> FALSE,
     width |-> calculated.current,
     padding_right |-> Px(cell_padding)
                           + (IF calculated.is_resizable THEN Px(divider_width) ELSE 0),
     col_index |-> col_index,
     row_index |-> row_index]

\* The body of Element::from(table): one row of cells per row of data.
body_rows(calculated, n) ==
    [r \in 1 .. n |->
        [k \in DOMAIN calculated |->
            body_container(k - 1, r - 1, calculated[k])]]

\* footer_container: the column's footer, or a Space when it has none,
\* given to with_divider like a header cell.
footer_container(index, has_footer, calculated, drag, release) ==
    with_divider(index, calculated, drag, release)
        @@ [content |-> IF has_footer THEN "footer" ELSE "space"]

\* The footer of Element::from(table), when Table::footer is Some.
footer_row(shown, has_footer, calculated, drag, release) ==
    IF shown
    THEN Some([k \in DOMAIN calculated |->
                  footer_container(k - 1, has_footer[k], calculated[k], drag, release)])
    ELSE None

\* Faulty variant: the table container is given no padding.
table_padding_none(unused) == 0

\* The right padding of the table container: the unused width, if any.
table_padding(unused) == IF unused = None THEN 0 ELSE unused[1]

\* scrollable::AbsoluteOffset
AbsoluteOffset(ox, oy) == [x |-> ox, y |-> oy]

\* The Message on_sync makes of an offset.
on_sync(offset) == [msg |-> "on_sync", offset |-> offset]

\* Faulty variant: the offset is passed on as the body reported it.
on_scroll_as_reported(offset) == on_sync(offset)

\* The closure given to the body's on_scroll:
\* (on_sync)(AbsoluteOffset { y: 0.0, ..offset })
on_scroll(offset) == on_sync([offset EXCEPT !.y = 0])

\* No frame has been drawn.
NothingDrawn ==
    /\ draw_cursor = None
    /\ quad = None
    /\ interaction = None

\* No table has been built.
NothingComposed ==
    /\ rows = 0
    /\ footer_id = FALSE
    /\ column_footer = <<>>
    /\ body = <<>>
    /\ footer = None
    /\ padding = 0
    /\ viewport = AbsoluteOffset(0, 0)

----------------------------------------------------------------------------
(* divider.rs: draw *)

\* The margin is_content_hovered leaves on the left.
content_margin == 5

\* f32::clamp
Clamp(v, lo, hi) == IF v < lo THEN lo ELSE IF v > hi THEN hi ELSE v

\* Faulty variant: the margin is cut off the left of the bounds, whose
\* right edge stays where it is.
is_content_hovered_trimmed(b, cursor) ==
    LET m == Clamp(b.width - Px(content_margin), 0, Px(content_margin))
    IN Contains([b EXCEPT !.x = b.x + m, !.width = b.width - m], cursor)

\* bounds.x += (bounds.width - 5.0).clamp(0.0, 5.0): the rectangle is moved
\* to the right, its width is not changed.
is_content_hovered(b, cursor) ==
    LET m == Clamp(b.width - Px(content_margin), 0, Px(content_margin))
    IN Contains([b EXCEPT !.x = b.x + m], cursor)

\* Faulty variant: f32::round, to the nearest whole pixel, halves away from
\* zero (for the non-negative lengths drawn here).
Floor_nearest(v) == ((2 * v + Scale) \div (2 * Scale)) * Scale

\* f32::floor, on a length in model units
Floor(v) == (v \div Scale) * Scale

\* The snap closure of draw
snap(width, b) == [b EXCEPT !.x = Floor(b.x), !.width = width]

\* Divider::draw: what it fills after drawing the content, and with which
\* appearance of the theme.
draw(st, width, b, cursor) ==
    IF \/ is_content_hovered(b, cursor)
       \/ st.is_divider_hovered
       \/ st.drag_origin # None
    THEN Some([bounds |-> snap(width, divider_bounds(width, b)),
               active |-> st.is_divider_hovered \/ st.drag_origin # None])
    ELSE None

----------------------------------------------------------------------------
(* divider.rs: mouse_interaction *)

\* Faulty variant: only the hovered flag is consulted.
mouse_interaction_hover_only(st, content_interaction) ==
    IF st.is_divider_hovered
    THEN "ResizingHorizontally"
    ELSE content_interaction

\* Divider::mouse_interaction, given what the content's own
\* mouse_interaction returns.
mouse_interaction(st, content_interaction) ==
    IF st.drag_origin # None \/ st.is_divider_hovered
    THEN "ResizingHorizontally"
    ELSE content_interaction

----------------------------------------------------------------------------
(* The inputs of the divider specification *)

\* Two placements of one divider widget, 30 px high.
DividerBounds ==
    { Rectangle(Px(0), Px(0), Px(100), Px(30)),
      Rectangle(Px(20), Px(0), Px(100), Px(30)) }

\* With bounds (0,0,100,30) and a 2 px divider the strip is [98,100) and
\* the hit region [93,105).
CursorXs == { Px(92), Px(94), Px(100), Px(105), Px(120), Px(130) }
CursorYs == { Px(0), Px(30) }
CursorPositions == { Point(px, py) : px \in CursorXs, py \in CursorYs }
MovePositions == { Point(px, Px(0)) : px \in CursorXs }

Events ==
    { ButtonPressed("Left"), ButtonPressed("Right"), ButtonReleased("Left"),
      Keyboard }
    \cup { CursorMoved(p) : p \in MovePositions }

\* The answers of the wrapped content to an event forwarded to it.
ContentAnswers ==
    { [status |-> "Ignored", published |-> <<>>],
      [status |-> "Captured", published |-> <<content_message>>] }

Count(msgs, m) == Cardinality({ i \in DOMAIN msgs : msgs[i] = m })

----------------------------------------------------------------------------
(* The divider specification: one divider widget receiving events *)

\* State::default(), before any event
Init ==
    /\ state = [drag_origin |-> None, is_divider_hovered |-> FALSE]
    /\ bounds \in DividerBounds
    /\ event = None
    /\ cursor_position = None
    /\ status = None
    /\ shell = <<>>
    /\ forwarded = None
    /\ presses = 0
    /\ releases = 0
    /\ columns = <<>>
    /\ min_width = 0
    /\ calculated_widths = <<>>
    /\ unused_width = None
    /\ pc = "divider"
    /\ on_column_drag = FALSE
    /\ on_column_release = FALSE
    /\ header = <<>>
    /\ header_state = <<>>
    /\ messages = <<>>
    /\ NothingComposed
    /\ NothingDrawn

\* The host delivers one event to Divider::on_event.
OnEvent(e, cursor, content) ==
    LET r == on_event(state, Px(divider_width), bounds, e, cursor, content)
        captured_press == e = ButtonPressed("Left") /\ ~r.to_content
    IN  /\ captured_press => presses < MaxDrags
        /\ state' = r.state
        /\ event' = Some(e)
        /\ cursor_position' = Some(cursor)
        /\ status' = Some(r.status)
        /\ shell' = r.published
        /\ forwarded' = IF r.to_content THEN Some([event |-> e, cursor_position |-> cursor])
                        ELSE None
        /\ presses' = IF captured_press THEN presses + 1 ELSE presses
        /\ releases' = releases + Count(r.published, on_release)
        /\ UNCHANGED <<bounds, solverVars, tableVars, composeVars, drawVars>>

Next ==
    \E e \in Events, cursor \in CursorPositions, content \in ContentAnswers :
        OnEvent(e, cursor, content)

Spec == Init /\ [][Next]_vars

----------------------------------------------------------------------------
(* The solver specification: distribute_fill_widths on drawn inputs *)

FixedWidths == { Px(50), Px(100) }
ResizableInitials == { Px(100) }
ResizableOffsets == { Px(-20), Px(0), Px(20) }
FillProportions == 0 .. MaxProportion
FillMinimums == { Px(0), Px(50) }
MinWidths == { Px(0), Px(100), Px(130), Px(150), Px(300) }

Widths ==
    { Fixed(w) : w \in FixedWidths }
    \cup { Resizable(i, o) : i \in ResizableInitials, o \in ResizableOffsets }
    \cup { Fill(p, m) : p \in FillProportions, m \in FillMinimums }

ColumnLists == UNION { [1 .. n -> Widths] : n \in 0 .. MaxCols }

DividerAtRest ==
    /\ state = [drag_origin |-> None, is_divider_hovered |-> FALSE]
    /\ bounds = Rectangle(0, 0, 0, 0)
    /\ event = None
    /\ cursor_position = None
    /\ status = None
    /\ shell = <<>>
    /\ forwarded = None
    /\ presses = 0
    /\ releases = 0

\* A table with its columns and minimum width, not yet built
SolverInit ==
    /\ DividerAtRest
    /\ columns \in ColumnLists
    /\ min_width \in MinWidths
    /\ calculated_widths = <<>>
    /\ unused_width = None
    /\ pc = "build"
    /\ on_column_drag = FALSE
    /\ on_column_release = FALSE
    /\ header = <<>>
    /\ header_state = <<>>
    /\ messages = <<>>
    /\ NothingComposed
    /\ NothingDrawn

\* let (calaculated_widths, unused_width) = distribute_fill_widths(columns, min_width)
Solve ==
    /\ pc = "build"
    /\ LET r == distribute_fill_widths(columns, min_width)
       IN  /\ calculated_widths' = r.calculated_widths
           /\ unused_width' = r.unused_width
    /\ pc' = "built"
    /\ UNCHANGED <<columns, min_width, dividerVars, tableVars, composeVars, drawVars>>

SolverNext == Solve

SolverSpec == SolverInit /\ [][SolverNext]_vars

----------------------------------------------------------------------------
(* The table specification: a built table, its header dividers receiving
   events, and the caller applying the messages and rebuilding *)

TableWidths == { Fixed(Px(50)), Resizable(Px(100), Px(0)), Fill(1, Px(0)) }
TableColumnLists == UNION { [1 .. n -> TableWidths] : n \in 1 .. MaxCols }
TableMinWidths == { Px(160), Px(300) }

\* A table whose last column is resizable and narrower than a divider's
\* hit region: cells [0,50), [50,150), [150,155).
NarrowColumnLists ==
    { <<Fixed(Px(50)), Resizable(Px(100), Px(0)), Resizable(Px(5), Px(0))>> }

\* With columns 50 and 100 the divider of the second column has its strip
\* at [148,150) and its hit region at [143,155); x=30 is more than the
\* column's width to the left of it.
TableCursors ==
    { Point(Px(30), Px(10)), Point(Px(130), Px(10)), Point(Px(150), Px(10)),
      Point(Px(170), Px(10)) }

TableEvents(cursor) ==
    { ButtonPressed("Left"), ButtonReleased("Left"), CursorMoved(cursor) }

\* The table just built from its columns: Element::from(table)
TableInit ==
    /\ state = [drag_origin |-> None, is_divider_hovered |-> FALSE]
    /\ bounds = Rectangle(0, 0, 0, 0)
    /\ event = None
    /\ cursor_position = None
    /\ status = None
    /\ shell = <<>>
    /\ forwarded = None
    /\ presses = 0
    /\ releases = 0
    /\ columns \in TableColumnLists \cup NarrowColumnLists
    /\ min_width \in TableMinWidths
    \* on_column_resize sets both callbacks or neither
    /\ on_column_drag \in BOOLEAN
    /\ on_column_release = on_column_drag
    /\ rows = MaxRows
    /\ footer_id = TRUE
    \* the default Column::footer returns None
    /\ column_footer = [k \in DOMAIN columns |-> FALSE]
    /\ viewport = AbsoluteOffset(0, 0)
    /\ LET r == distribute_fill_widths(columns, min_width)
       IN  /\ calculated_widths = r.calculated_widths
           /\ unused_width = r.unused_width
           /\ header = header_row(r.calculated_widths, on_column_drag, on_column_release)
           /\ body = body_rows(r.calculated_widths, rows)
           /\ footer = footer_row(footer_id, column_footer, r.calculated_widths,
                                  on_column_drag, on_column_release)
           /\ padding = table_padding(r.unused_width)
    /\ header_state = [k \in DOMAIN columns |->
                          [drag_origin |-> None, is_divider_hovered |-> FALSE]]
    /\ messages = <<>>
    /\ pc = "table"
    /\ NothingDrawn

\* The host delivers one event to the header row, which hands it to every
\* cell; the messages published go to the caller.
HeaderEvent(e, cursor) ==
    LET captured_press ==
            /\ e = ButtonPressed("Left")
            /\ \E k \in DOMAIN header :
                  ~cell_on_event(header, header_state, k, e, cursor).to_content
    IN  /\ pc = "table"
        /\ messages = <<>>
        /\ captured_press => presses < MaxDrags
        /\ header_state' = [k \in DOMAIN header |->
                               cell_on_event(header, header_state, k, e, cursor).state]
        /\ messages' = row_messages(header, header_state, 1, e, cursor)
        /\ event' = Some(e)
        /\ cursor_position' = Some(cursor)
        /\ presses' = IF captured_press THEN presses + 1 ELSE presses
        /\ UNCHANGED <<state, bounds, status, shell, forwarded, releases,
                       solverVars, on_column_drag, on_column_release, header,
                       composeVars, drawVars>>

\* The caller's update takes the messages, and the table is built again
\* from the columns: Element::from(table).
Update ==
    /\ pc = "table"
    /\ messages # <<>>
    /\ columns' = apply_messages(columns, messages)
    /\ LET r == distribute_fill_widths(columns', min_width)
       IN  /\ calculated_widths' = r.calculated_widths
           /\ unused_width' = r.unused_width
           /\ header' = header_row(r.calculated_widths, on_column_drag, on_column_release)
           /\ body' = body_rows(r.calculated_widths, rows)
           /\ footer' = footer_row(footer_id, column_footer, r.calculated_widths,
                                   on_column_drag, on_column_release)
           /\ padding' = table_padding(r.unused_width)
    /\ messages' = <<>>
    /\ UNCHANGED <<dividerVars, min_width, pc, on_column_drag, on_column_release,
                   header_state, rows, footer_id, column_footer, viewport, drawVars>>

TableNext ==
    \/ \E cursor \in TableCursors : \E e \in TableEvents(cursor) : HeaderEvent(e, cursor)
    \/ Update

TableSpec == TableInit /\ [][TableNext]_vars

----------------------------------------------------------------------------
(* The composition specification: a table is built from its fields, its
   body scrolls, and the caller takes the messages and builds it again *)

\* The offsets the body scrollable reports
ScrollOffsets == { AbsoluteOffset(ox, oy) : ox \in { Px(0), Px(40) }, oy \in { Px(0), Px(25) } }

\* table(..) with its builder methods applied, before Element::from
ComposeInit ==
    /\ DividerAtRest
    /\ columns \in TableColumnLists
    /\ min_width \in TableMinWidths
    /\ on_column_drag \in BOOLEAN
    /\ on_column_release = on_column_drag
    /\ rows \in 0 .. MaxRows
    /\ footer_id \in BOOLEAN
    /\ column_footer \in [DOMAIN columns -> BOOLEAN]
    /\ calculated_widths = <<>>
    /\ unused_width = None
    /\ header = <<>>
    /\ header_state = <<>>
    /\ body = <<>>
    /\ footer = None
    /\ padding = 0
    /\ viewport = AbsoluteOffset(0, 0)
    /\ messages = <<>>
    /\ pc = "compose"
    /\ NothingDrawn

\* Element::from(table)
Compose ==
    /\ pc = "compose"
    /\ LET r == distribute_fill_widths(columns, min_width)
       IN  /\ calculated_widths' = r.calculated_widths
           /\ unused_width' = r.unused_width
           /\ header' = header_row(r.calculated_widths, on_column_drag, on_column_release)
           /\ body' = body_rows(r.calculated_widths, rows)
           /\ footer' = footer_row(footer_id, column_footer, r.calculated_widths,
                                   on_column_drag, on_column_release)
           /\ padding' = table_padding(r.unused_width)
    /\ header_state' = [k \in DOMAIN columns |->
                           [drag_origin |-> None, is_divider_hovered |-> FALSE]]
    /\ pc' = "table"
    /\ UNCHANGED <<dividerVars, columns, min_width, on_column_drag, on_column_release,
                   messages, rows, footer_id, column_footer, viewport, drawVars>>

\* The body scrollable reports its viewport to the on_scroll closure.
BodyScroll(offset) ==
    /\ pc = "table"
    /\ messages = <<>>
    /\ viewport' = offset
    /\ messages' = <<on_scroll(offset)>>
    /\ UNCHANGED <<dividerVars, solverVars, on_column_drag, on_column_release,
                   header, header_state, rows, footer_id, column_footer, body,
                   footer, padding, drawVars>>

ComposeNext ==
    \/ Compose
    \/ \E offset \in ScrollOffsets : BodyScroll(offset)
    \/ Update

ComposeSpec == ComposeInit /\ [][ComposeNext]_vars

----------------------------------------------------------------------------
(* The drawing specification: one divider widget receiving events and
   being drawn *)

\* A wide widget, and a widget whose strip starts at x = 10.7.
DrawBounds ==
    { Rectangle(Px(0), Px(0), Px(100), Px(30)),
      Rectangle(Px(7) \div 10, Px(0), Px(12), Px(30)) }

\* Of the wide widget: x=3 is in the left margin, 8 and 50 over the
\* content, 96 in the hit region [93,105) and in the bounds, 102 in the hit
\* region and right of the bounds, 110 right of both; (50,40) is below it.
\* Of the other widget, x=8 is over the content and in the hit region.
DrawCursors ==
    { Point(Px(3), Px(10)), Point(Px(8), Px(10)), Point(Px(50), Px(10)),
      Point(Px(96), Px(10)), Point(Px(102), Px(10)), Point(Px(110), Px(10)),
      Point(Px(50), Px(40)) }

\* The mouse::Interaction values the wrapped content answers with
ContentInteractions == { "Idle", "Pointer" }

DrawEvents(cursor) ==
    { ButtonPressed("Left"), ButtonReleased("Left"), CursorMoved(cursor) }

\* State::default(), before any event and any frame
DrawInit ==
    /\ state = [drag_origin |-> None, is_divider_hovered |-> FALSE]
    /\ bounds \in DrawBounds
    /\ event = None
    /\ cursor_position = None
    /\ status = None
    /\ shell = <<>>
    /\ forwarded = None
    /\ presses = 0
    /\ releases = 0
    /\ columns = <<>>
    /\ min_width = 0
    /\ calculated_widths = <<>>
    /\ unused_width = None
    /\ pc = "divider"
    /\ on_column_drag = FALSE
    /\ on_column_release = FALSE
    /\ header = <<>>
    /\ header_state = <<>>
    /\ messages = <<>>
    /\ NothingComposed
    /\ NothingDrawn

\* The host draws the widget with the cursor where it is.
Draw(cursor) ==
    /\ draw_cursor' = Some(cursor)
    /\ quad' = draw(state, Px(divider_width), bounds, cursor)
    /\ UNCHANGED <<dividerVars, solverVars, tableVars, composeVars, interaction>>

\* The host asks the widget for the cursor hint; the content answers with
\* a hint of its own.
MouseInteraction(content_interaction) ==
    /\ interaction' = Some([content |-> content_interaction,
                            interaction |-> mouse_interaction(state, content_interaction)])
    /\ UNCHANGED <<dividerVars, solverVars, tableVars, composeVars, draw_cursor, quad>>

DrawNext ==
    \/ \E cursor \in DrawCursors : \E e \in DrawEvents(cursor) :
          OnEvent(e, cursor, header_content)
    \/ \E cursor \in DrawCursors : Draw(cursor)
    \/ \E hint \in ContentInteractions : MouseInteraction(hint)

DrawSpec == DrawInit /\ [][DrawNext]_vars

----------------------------------------------------------------------------
(* Claims about the divider, checked under Spec *)

Dragging == state.drag_origin # None
Idle == state.drag_origin = None

LeftPress == Some(ButtonPressed("Left"))
LeftRelease == Some(ButtonReleased("Left"))
IsMove(ev) == ev # None /\ ev[1].kind = "CursorMoved"

PublishesDrag(msgs) == \E i \in DOMAIN msgs : msgs[i].msg = "on_drag"
PublishesRelease(msgs) == \E i \in DOMAIN msgs : msgs[i].msg = "on_release"

\* The step hands the event to the content, and status and messages are
\* the content's.
PassedThrough ==
    /\ forwarded' = Some([event |-> event'[1], cursor_position |-> cursor_position'[1]])
    /\ \E content \in ContentAnswers :
          status' = Some(content.status) /\ shell' = content.published

\* C1: drag deltas are origin-relative.  A CursorMoved handled while
\* Dragging publishes exactly on_drag(position.x - origin.x) and leaves the
\* stored origin as it was; the origin is only ever set by a captured left
\* press, to the cursor position of that press.
C1_MoveKeepsOrigin ==
    (Dragging /\ IsMove(event')) =>
        /\ shell' = <<on_drag(event'[1].position.x - state.drag_origin[1].x)>>
        /\ state'.drag_origin = state.drag_origin
        /\ status' = Some("Captured")

C1_OriginIsPress ==
    (state'.drag_origin # state.drag_origin /\ state'.drag_origin # None) =>
        /\ event' = LeftPress
        /\ state'.drag_origin = cursor_position'

\* C1: every step keeps both: deltas are measured from the stored origin,
\* which a move never changes and only a captured press sets.
C1_OriginRelative == [][C1_MoveKeepsOrigin /\ C1_OriginIsPress]_vars

\* Press at x=100, then a move to x=120 handled while the origin is still
\* x=100: the delta published is +20.
C1_Witness ==
    /\ Dragging
    /\ state.drag_origin[1].x = Px(100)
    /\ event = Some(CursorMoved(Point(Px(120), Px(0))))
    /\ shell = <<on_drag(Px(20))>>

\* C2: no step taken from Idle publishes an on_drag message, and a
\* CursorMoved handled while Idle leaves the divider Idle and goes to the
\* content.
C2_IdleStep ==
    Idle =>
        /\ ~PublishesDrag(shell')
        /\ IsMove(event') => (state'.drag_origin = None /\ PassedThrough)

\* C2: resize-delta messages are published only while Dragging.
C2_NoDragWhenIdle == [][C2_IdleStep]_vars

\* A move handled after a completed drag: nothing of the divider's is
\* published and the divider is Idle.
C2_Witness ==
    /\ releases >= 1
    /\ IsMove(event)
    /\ Idle
    /\ forwarded # None
    /\ ~PublishesDrag(shell)

\* C3: a left release handled while Dragging publishes exactly one
\* on_release, clears drag_origin and is captured; on_release is published
\* by no other step; release messages never outnumber captured presses.
C3_ReleaseStep ==
    /\ (Dragging /\ event' = LeftRelease) =>
          /\ shell' = <<on_release>>
          /\ state'.drag_origin = None
          /\ status' = Some("Captured")
          /\ forwarded' = None
          /\ releases' = releases + 1
    /\ ~(Dragging /\ event' = LeftRelease) =>
          /\ ~PublishesRelease(shell')
          /\ releases' = releases

\* C3: on_release is published exactly once per completed drag, and the
\* release messages never outnumber the captured presses.
C3_ReleaseOncePerDrag == [](releases <= presses) /\ [][C3_ReleaseStep]_vars

\* Two drags completed: two presses captured, two release messages.
C3_Witness ==
    /\ presses = 2
    /\ releases = 2
    /\ event = LeftRelease
    /\ shell = <<on_release>>
    /\ Idle

\* C4: a left release handled while Idle leaves drag_origin None, publishes
\* nothing of the divider's and is passed to the content, whose status is
\* returned.
C4_IdleReleaseStep ==
    (Idle /\ event' = LeftRelease) =>
        /\ state'.drag_origin = None
        /\ ~PublishesRelease(shell')
        /\ ~PublishesDrag(shell')
        /\ PassedThrough
        /\ releases' = releases

\* C4: a release with no matching press is a no-op for the divider and is
\* passed through to the content.
C4_UnmatchedReleaseIgnored == [][C4_IdleReleaseStep]_vars

\* A release with no press before it, which the content ignored.
C4_Witness ==
    /\ presses = 0
    /\ event = LeftRelease
    /\ Idle
    /\ forwarded = Some([event |-> ButtonReleased("Left"),
                         cursor_position |-> cursor_position[1]])
    /\ status = Some("Ignored")
    /\ shell = <<>>

\* The hit region written out: the rightmost divider_width units of the
\* bounds, widened by 5 units on each side, over the full height.
InHitRegion(b, c) ==
    /\ b.x + b.width - Px(divider_width) - Px(5) <= c.x
    /\ c.x < b.x + b.width + Px(5)
    /\ b.y <= c.y
    /\ c.y < b.y + b.height

\* C5: after any event the hovered flag is true iff the cursor position of
\* that event lies in the hit region, whatever the drag state; a left press
\* is captured iff it lies there.
C5_HoverIsHitRegion ==
    cursor_position # None =>
        /\ state.is_divider_hovered = InHitRegion(bounds, cursor_position[1])
        /\ event = LeftPress =>
              ((forwarded = None) = InHitRegion(bounds, cursor_position[1]))

\* A press 4 units left of the strip's left edge (strip [98,100), press at
\* x=94) is hovered and captured.
C5_Witness ==
    /\ bounds = Rectangle(Px(0), Px(0), Px(100), Px(30))
    /\ cursor_position = Some(Point(Px(94), Px(0)))
    /\ event = LeftPress
    /\ state.is_divider_hovered
    /\ state.drag_origin = cursor_position
    /\ status = Some("Captured")

\* The same press 6 units left of the edge (x=92) is not hovered and goes
\* to the content.
C5_WitnessOutside ==
    /\ bounds = Rectangle(Px(0), Px(0), Px(100), Px(30))
    /\ cursor_position = Some(Point(Px(92), Px(0)))
    /\ event = LeftPress
    /\ ~state.is_divider_hovered
    /\ forwarded # None

----------------------------------------------------------------------------
(* Further claims about the divider, checked under Spec *)

\* The cursor of the step's event lies in the hit region.
PressInside == event' = LeftPress /\ InHitRegion(bounds, cursor_position'[1])
PressOutside == event' = LeftPress /\ ~InHitRegion(bounds, cursor_position'[1])

\* C16: a left press handled while Idle with the cursor in the hit region
\* stores the press position as drag_origin, is Captured, publishes nothing
\* and does not reach the content; a press outside the hit region leaves
\* drag_origin as it was.
C16_PressStep ==
    /\ (Idle /\ PressInside) =>
          /\ state'.drag_origin = cursor_position'
          /\ status' = Some("Captured")
          /\ shell' = <<>>
          /\ forwarded' = None
    /\ PressOutside => state'.drag_origin = state.drag_origin

\* C16: press capture.
C16_PressCapture == [][C16_PressStep]_vars

\* The first press of a divider, on its strip's right edge.
C16_Witness ==
    /\ presses = 1
    /\ releases = 0
    /\ event = LeftPress
    /\ cursor_position = Some(Point(Px(100), Px(0)))
    /\ bounds = Rectangle(Px(0), Px(0), Px(100), Px(30))
    /\ state.drag_origin = Some(Point(Px(100), Px(0)))
    /\ status = Some("Captured")
    /\ shell = <<>>
    /\ forwarded = None

\* A press outside the hit region during a drag: the origin stays.
C16_WitnessOutside ==
    /\ event = LeftPress
    /\ cursor_position = Some(Point(Px(130), Px(0)))
    /\ bounds = Rectangle(Px(0), Px(0), Px(100), Px(30))
    /\ state.drag_origin = Some(Point(Px(100), Px(0)))
    /\ forwarded # None

\* The events the divider captures: a press inside the hit region, a move
\* while Dragging, a release while Dragging.
CapturedByDivider ==
    \/ PressInside
    \/ Dragging /\ IsMove(event')
    \/ Dragging /\ event' = LeftRelease

\* C17: an event the divider does not capture reaches the content once, as
\* it arrived, and the divider returns the content's status and messages;
\* an event it captures does not reach the content.
C17_Step ==
    IF CapturedByDivider
    THEN /\ forwarded' = None
         /\ status' = Some("Captured")
         /\ \A n \in DOMAIN shell' : shell'[n] # content_message
    ELSE PassedThrough

\* C17: pass-through.
C17_PassThrough == [][C17_Step]_vars

\* A key press during a drag goes to the content, which captures it.
C17_Witness ==
    /\ Dragging
    /\ event = Some(Keyboard)
    /\ forwarded = Some([event |-> Keyboard, cursor_position |-> cursor_position[1]])
    /\ status = Some("Captured")
    /\ shell = <<content_message>>

\* A right press on the divider itself goes to the content too.
C17_WitnessRightPress ==
    /\ event = Some(ButtonPressed("Right"))
    /\ state.is_divider_hovered
    /\ forwarded = Some([event |-> ButtonPressed("Right"),
                         cursor_position |-> cursor_position[1]])
    /\ status = Some("Ignored")

\* C18: once Dragging the divider stays Dragging through every event but a
\* left release; a move handled while Dragging is captured and publishes
\* its delta wherever the cursor is.
C18_Step ==
    /\ (Dragging /\ event' # LeftRelease) => state'.drag_origin # None
    /\ (Dragging /\ IsMove(event')) =>
          /\ status' = Some("Captured")
          /\ forwarded' = None
          /\ shell' = <<on_drag(event'[1].position.x - state.drag_origin[1].x)>>

\* C18: a drag is never lost.
C18_DragNeverLost == [][C18_Step]_vars

\* A move to x=130, 25 units right of the hit region [93,105), during a
\* drag from x=100: not hovered, captured, +30 published.
C18_Witness ==
    /\ bounds = Rectangle(Px(0), Px(0), Px(100), Px(30))
    /\ state.drag_origin = Some(Point(Px(100), Px(0)))
    /\ event = Some(CursorMoved(Point(Px(130), Px(0))))
    /\ cursor_position = Some(Point(Px(130), Px(0)))
    /\ ~state.is_divider_hovered
    /\ status = Some("Captured")
    /\ shell = <<on_drag(Px(30))>>

\* drag_origin is Some exactly from a captured press to the next left
\* release, and during the drag it is the position of the press that left
\* Idle, whatever is handled in between.
C19_Step ==
    /\ (Idle /\ PressInside) => state'.drag_origin = cursor_position'
    /\ (Idle /\ ~PressInside) => state'.drag_origin = None
    /\ (Dragging /\ event' = LeftRelease) => state'.drag_origin = None
    /\ (Dragging /\ event' # LeftRelease) => state'.drag_origin = state.drag_origin

\* C19: throughout one drag drag_origin keeps the position of the first
\* press, a further press inside the hit region included.
C19_OriginKeptThroughDrag == [][C19_Step]_vars

\* What does hold of the code: the origin is that of the last captured
\* press, and only a captured press or a release changes it.
C19_OriginOfLastCapturedPress ==
    [][/\ PressInside => state'.drag_origin = cursor_position'
       /\ (Idle /\ ~PressInside) => state'.drag_origin = None
       /\ event' = LeftRelease => state'.drag_origin = None
       /\ (Dragging /\ event' # LeftRelease /\ ~PressInside) =>
             state'.drag_origin = state.drag_origin]_vars

\* A second press inside the hit region during a drag that began at x=100.
C19_SecondPress ==
    /\ presses = 2
    /\ releases = 0
    /\ event = LeftPress
    /\ cursor_position = Some(Point(Px(94), Px(0)))
    /\ state.drag_origin = Some(Point(Px(94), Px(0)))


----------------------------------------------------------------------------
(* Claims about the solver, checked under SolverSpec *)

RECURSIVE SumSeq(_)
SumSeq(q) == IF q = <<>> THEN 0 ELSE Head(q) + SumSeq(Tail(q))

Built == pc = "built"

IsFill(c) == c.kind = "Fill"
FillColumns == { i \in DOMAIN columns : IsFill(columns[i]) }

\* The width a Fixed or Resizable spec gives its column.
SpecWidth(c) == IF c.kind = "Fixed" THEN c.width ELSE c.initial + c.offset

\* Sum of the fixed and resizable current widths of the specs.
CommittedWidth ==
    SumSeq([i \in DOMAIN columns |->
               IF IsFill(columns[i]) THEN 0 ELSE SpecWidth(columns[i])])

\* R = W - sum(Fixed) - sum(Resizable initial + offset)
Remaining == min_width - CommittedWidth

TotalProportion ==
    SumSeq([i \in DOMAIN columns |->
               IF IsFill(columns[i]) THEN columns[i].proportion ELSE 0])

ResolvedSum == SumSeq([i \in DOMAIN calculated_widths |-> calculated_widths[i].current])

FillSum ==
    SumSeq([i \in DOMAIN calculated_widths |->
               IF IsFill(columns[i]) THEN calculated_widths[i].current ELSE 0])

UnusedOrZero == IF unused_width = None THEN 0 ELSE unused_width[1]

\* Every division the solver performed was exact, so the model's integers
\* are the source's quotients.
DivisionIsExact == TotalProportion # 0 => Remaining % TotalProportion = 0

\* C7: with no Fill column, if W covers the fixed and resizable widths the
\* resolved widths and the unused width add up to W; if it does not, no
\* unused width is reported and every width is the one its spec gives.
C7_ConservationWithoutFill ==
    (Built /\ FillColumns = {}) =>
        /\ Len(calculated_widths) = Len(columns)
        /\ IF min_width >= CommittedWidth
           THEN ResolvedSum + UnusedOrZero = min_width
           ELSE /\ unused_width = None
                /\ \A i \in DOMAIN columns :
                      calculated_widths[i].current = SpecWidth(columns[i])

\* Fixed(100) alone with W = 150: width 100 and 50 unused.
C7_Witness ==
    /\ Built
    /\ columns = <<Fixed(Px(100))>>
    /\ min_width = Px(150)
    /\ calculated_widths = <<CalculatedWidth(Px(100), FALSE)>>
    /\ unused_width = Some(Px(50))

\* A resizable column dragged narrower, W below the committed width.
C7_WitnessOverCommitted ==
    /\ Built
    /\ columns = <<Fixed(Px(50)), Resizable(Px(100), Px(-20))>>
    /\ min_width = Px(100)
    /\ unused_width = None
    /\ calculated_widths[2].current = Px(80)

FillMinimumsZero == \A i \in FillColumns : columns[i].minimum = 0

\* What the proportion law says of the resolved widths: every Fill column
\* has proportion * R / total (written without the division), the Fill
\* widths add up to R, the table to W, and nothing is unused.
ProportionLaw ==
    /\ \A i \in FillColumns :
          calculated_widths[i].current * TotalProportion
              = columns[i].proportion * Remaining
    /\ \A i, j \in FillColumns :
          calculated_widths[i].current * columns[j].proportion
              = calculated_widths[j].current * columns[i].proportion
    /\ FillSum = Remaining
    /\ ResolvedSum = min_width
    /\ unused_width = None

PartWidth == IF TotalProportion # 0 THEN Remaining \div TotalProportion ELSE 0

\* C9: every Fill column resolves to max(proportion * part_width, minimum),
\* so never to less than its minimum, whatever the remaining width; with
\* proportion 0 it resolves to exactly its minimum.
C9_MinimumFloor ==
    Built =>
        \A i \in FillColumns :
            /\ calculated_widths[i].current
                  = Max(columns[i].proportion * PartWidth, columns[i].minimum)
            /\ calculated_widths[i].current >= columns[i].minimum
            /\ columns[i].proportion = 0 =>
                  calculated_widths[i].current = columns[i].minimum

\* A share of 10 under a minimum of 50 resolves to 50.
C9_Witness ==
    /\ Built
    /\ columns = <<Resizable(Px(100), Px(20)), Fill(1, Px(50))>>
    /\ min_width = Px(130)
    /\ PartWidth = Px(10)
    /\ calculated_widths[2].current = Px(50)

\* A negative remaining width, and a Fill column of proportion 0.
C9_WitnessNegative ==
    /\ Built
    /\ Remaining < 0
    /\ \E i, j \in FillColumns :
          /\ columns[i].proportion = 0
          /\ columns[j].proportion > 0
          /\ columns[j].minimum = Px(50)
          /\ calculated_widths[j].current = Px(50)
          /\ calculated_widths[i].current = columns[i].minimum

C10_WitnessNone ==
    /\ Built
    /\ columns = <<Fixed(Px(100))>>
    /\ min_width = Px(100)
    /\ unused_width = None

\* C11: unused width occurs only when no Fill column exists: with at least
\* one Fill column, whatever its proportion, the solver returns None.
C11_NoUnusedWithFill ==
    (Built /\ FillColumns # {}) => unused_width = None

\* The case the solver's own header comment describes: a positive remaining
\* width is returned when there is no fill column.
C11_UnusedWithoutFill ==
    /\ Built
    /\ FillColumns = {}
    /\ Remaining > 0
    /\ unused_width = Some(Remaining)


\* C15: the solver preserves length and order: entry i is derived from
\* spec i (Fixed(w) gives current w, not resizable; Resizable gives
\* initial + offset, resizable; Fill is not resizable), and is_resizable is
\* set for Resizable specs only.
C15_OrderPreserving ==
    Built =>
        /\ Len(calculated_widths) = Len(columns)
        /\ \A i \in DOMAIN columns :
              /\ columns[i].kind = "Fixed" =>
                    calculated_widths[i] = CalculatedWidth(columns[i].width, FALSE)
              /\ columns[i].kind = "Resizable" =>
                    calculated_widths[i]
                        = CalculatedWidth(columns[i].initial + columns[i].offset, TRUE)
              /\ columns[i].kind = "Fill" => ~calculated_widths[i].is_resizable
              /\ calculated_widths[i].is_resizable = (columns[i].kind = "Resizable")

\* Three columns of three kinds, each entry from the spec at its place.
C15_Witness ==
    /\ Built
    /\ columns = <<Resizable(Px(100), Px(-20)), Fill(1, Px(0)), Fixed(Px(50))>>
    /\ min_width = Px(150)
    /\ calculated_widths = <<CalculatedWidth(Px(80), TRUE),
                             CalculatedWidth(Px(20), FALSE),
                             CalculatedWidth(Px(50), FALSE)>>


----------------------------------------------------------------------------
(* Claims about the resize loop, checked under TableSpec *)

DraggingCells ==
    { k \in DOMAIN header : header[k].divider /\ header_state[k].drag_origin # None }

\* The delta a move to p gives the divider of cell k
Delta(k, p) == p.x - header_state[k].drag_origin[1].x

\* A left press inside the hit region of a header divider makes that
\* divider Dragging from the position of the press.
C6_PressStep ==
    (event' = LeftPress /\ messages = <<>>) =>
        \A k \in DOMAIN header :
            (header[k].divider /\ InHitRegion(cell_bounds(header, k), cursor_position'[1]))
                => header_state'[k].drag_origin = cursor_position'

\* A move delivered to the header publishes, for every Dragging divider k,
\* the message (k - 1, delta) with the column's index as enumerate()
\* counts it, and no other drag message.
C6_MoveStep ==
    (IsMove(event') /\ messages = <<>>) =>
        LET p == event'[1].position
        IN  /\ \A k \in DraggingCells :
                  \E n \in DOMAIN messages' : messages'[n] = column_drag(k - 1, Delta(k, p))
            /\ \A n \in DOMAIN messages' :
                  \E k \in DraggingCells : messages'[n] = column_drag(k - 1, Delta(k, p))

\* The columns are Fixed and Resizable ones and a single Fill(1, 0).
OneFillShape(cols) ==
    /\ Cardinality({ k \in DOMAIN cols : IsFill(cols[k]) }) = 1
    /\ \A k \in DOMAIN cols : IsFill(cols[k]) => cols[k] = Fill(1, 0)

Slack(cols) ==
    min_width - SumSeq([k \in DOMAIN cols |->
                           IF IsFill(cols[k]) THEN 0 ELSE SpecWidth(cols[k])])

\* The caller applies the one message (i, d) to a column whose offset was 0
\* and the table is solved again: with positive slack before and after,
\* column i has initial + d, the Fill column has d less, the others are as
\* they were.
C6_ApplyStep ==
    (/\ Len(messages) = 1
     /\ messages[1].msg = "on_column_drag"
     /\ OneFillShape(columns)
     /\ columns[messages[1].index + 1].kind = "Resizable"
     /\ columns[messages[1].index + 1].offset = 0
     /\ Slack(columns) > 0
     /\ Slack(columns') > 0
     /\ messages' = <<>>) =>
        LET i == messages[1].index + 1
            d == messages[1].offset
        IN  /\ columns' = [columns EXCEPT ![i].offset = d]
            /\ calculated_widths'[i].current = columns[i].initial + d
            /\ \A k \in DOMAIN columns :
                  calculated_widths'[k].current =
                      CASE k = i -> calculated_widths[k].current + d
                        [] IsFill(columns[k]) -> calculated_widths[k].current - d
                        [] OTHER -> calculated_widths[k].current

C6_WitnessMessage ==
    /\ columns = <<Fixed(Px(50)), Resizable(Px(100), Px(0)), Fill(1, Px(0))>>
    /\ min_width = Px(300)
    /\ messages = <<column_drag(1, Px(20))>>

\* The caller kept every resizable column's current width non-negative.
OffsetsClamped ==
    \A k \in DOMAIN columns :
        columns[k].kind = "Resizable" => columns[k].initial + columns[k].offset >= 0

NoNegativeWidth == \A k \in DOMAIN calculated_widths : calculated_widths[k].current >= 0

\* C12 as stated: no resolved width is ever negative, the offsets being
\* whatever drag deltas the dividers emitted and the caller applied.
C12_Original == NoNegativeWidth

\* C12 as amended: no resolved width is negative as long as the caller
\* keeps initial + offset of every Resizable column non-negative; a Fill
\* column is never negative, however negative the remaining width.
C12_NoNegativeWidth == OffsetsClamped => NoNegativeWidth

\* [50,100,Fill] with W = 160 and the second column dragged 20 wider: the
\* remaining width is -10 and the Fill column resolves to 0.
C12_Witness ==
    /\ columns = <<Fixed(Px(50)), Resizable(Px(100), Px(20)), Fill(1, Px(0))>>
    /\ min_width = Px(160)
    /\ remaining_width(columns, min_width) = Px(-10)
    /\ calculated_widths[3].current = 0
    /\ messages = <<>>
    /\ event = Some(CursorMoved(Point(Px(170), Px(10))))

----------------------------------------------------------------------------
(* Claims about the composition, checked under ComposeSpec *)

Composed == pc = "table"

\* The table was given its resize callbacks, on_drag and on_release both.
ResizeCallbacks == on_column_drag /\ on_column_release

\* C13: a header or footer cell of column i is wrapped in a divider iff the
\* column's spec is Resizable and the table was given both resize
\* callbacks; Fixed and Fill columns never get one, without callbacks no
\* column gets one, and body cells never get one.
C13_DividerIffResizable ==
    Composed =>
        /\ Len(header) = Len(columns)
        /\ \A k \in DOMAIN columns :
              header[k].divider = (columns[k].kind = "Resizable" /\ ResizeCallbacks)
        /\ footer_id = (footer # None)
        /\ footer # None =>
              /\ Len(footer[1]) = Len(columns)
              /\ \A k \in DOMAIN columns :
                    footer[1][k].divider
                        = (columns[k].kind = "Resizable" /\ ResizeCallbacks)
        /\ Len(body) = rows
        /\ \A r \in DOMAIN body :
              /\ Len(body[r]) = Len(columns)
              /\ \A k \in DOMAIN columns : ~body[r][k].divider

\* Callbacks given, [Fixed, Resizable, Fill]: only the middle column's
\* header and footer cells have a divider, and no body cell has.
C13_Witness ==
    /\ Composed
    /\ ResizeCallbacks
    /\ columns = <<Fixed(Px(50)), Resizable(Px(100), Px(0)), Fill(1, Px(0))>>
    /\ [k \in 1 .. 3 |-> header[k].divider] = <<FALSE, TRUE, FALSE>>
    /\ footer # None
    /\ [k \in 1 .. 3 |-> footer[1][k].divider] = <<FALSE, TRUE, FALSE>>
    /\ rows = 1
    /\ [k \in 1 .. 3 |-> body[1][k].divider] = <<FALSE, FALSE, FALSE>>

\* No callbacks: a Resizable column has no divider either.
C13_WitnessNoCallbacks ==
    /\ Composed
    /\ ~on_column_drag
    /\ columns = <<Resizable(Px(100), Px(0))>>
    /\ ~header[1].divider
    /\ footer # None
    /\ ~footer[1][1].divider

SyncMessages == { n \in DOMAIN messages : messages[n].msg = "on_sync" }

\* A report of the body produces exactly one message, the sync message
\* carrying the reported horizontal offset and a vertical offset of 0.
C14_ScrollStep ==
    (pc = "table" /\ messages = <<>> /\ messages' # <<>>) =>
        messages' = <<on_sync(AbsoluteOffset(viewport'.x, 0))>>

\* No sync message has a vertical component, and its horizontal component
\* is the offset the body last reported.
C14_SyncIsHorizontal ==
    \A n \in SyncMessages :
        /\ messages[n].offset.y = 0
        /\ messages[n].offset.x = viewport.x

\* C14: scroll sync is horizontal-only: every scroll report (x, y) of the
\* body produces exactly one on_sync message carrying (x, 0); no sync
\* message ever has a non-zero vertical component.
C14_ScrollSyncHorizontal == []C14_SyncIsHorizontal /\ [][C14_ScrollStep]_vars

\* The body reports (40, 25): the message carries (40, 0).
C14_Witness ==
    /\ viewport = AbsoluteOffset(Px(40), Px(25))
    /\ messages = <<on_sync(AbsoluteOffset(Px(40), 0))>>

----------------------------------------------------------------------------
(* Claims about drawing, checked under DrawSpec *)

\* The content-hover region as the claim has it: the bounds with 5 units
\* removed on the left, the right edge being that of the bounds.
InContentRegion(b, c) ==
    /\ b.x + Px(5) <= c.x
    /\ c.x < b.x + b.width
    /\ b.y <= c.y
    /\ c.y < b.y + b.height

\* A draw call was made in this step.
DrawStep == draw_cursor' # None /\ UNCHANGED <<dividerVars, interaction>>

\* The active appearance is used iff the divider is hovered or dragging.
C20_ActiveStep ==
    (DrawStep /\ quad' # None) =>
        quad'[1].active = (state.is_divider_hovered \/ Dragging)

\* The strip is drawn iff the divider is hovered, a drag is in progress or
\* the cursor is in the content-hover region.
C20_DrawnStep ==
    DrawStep =>
        (quad' # None) = \/ state.is_divider_hovered
                         \/ Dragging
                         \/ InContentRegion(bounds, draw_cursor'[1])

\* C20: the strip is drawn iff the divider is hovered, dragging, or the
\* cursor is in the content-hover region, which is the bounds less 5 units
\* on the left and ends at the bounds' right edge; the active appearance
\* is used iff the divider is hovered or dragging.
C20_DrawnIffHovered == [][C20_DrawnStep /\ C20_ActiveStep]_vars

\* The first frame of the wide widget, the cursor 2 units right of its
\* bounds and no event handled yet: the strip is drawn.
C20_DrawnRightOfBounds ==
    /\ bounds = Rectangle(Px(0), Px(0), Px(100), Px(30))
    /\ event = None
    /\ draw_cursor = Some(Point(Px(102), Px(10)))
    /\ quad # None
    /\ ~quad[1].active

\* A mouse_interaction call: the only step that changes the recorded hint.
MouseInteractionStep == interaction' # interaction /\ UNCHANGED dividerVars

\* The hint is resize-horizontal when Dragging or hovered, else the content's.
C21_HintStep ==
    MouseInteractionStep =>
        interaction'[1].interaction =
            IF Dragging \/ state.is_divider_hovered
            THEN "ResizingHorizontally"
            ELSE interaction'[1].content

\* After a left release with the cursor outside the hit region the hint is
\* the content's.
C21_AfterReleaseStep ==
    (/\ MouseInteractionStep
     /\ event = LeftRelease
     /\ ~InHitRegion(bounds, cursor_position[1])) =>
        interaction'[1].interaction = interaction'[1].content

\* C21: the cursor hint is resize-horizontal in every state where the
\* divider is Dragging or its hovered flag is set, and in every other state
\* it is exactly the wrapped content's own hint; after a release with the
\* cursor outside the hit region the hint is again the content's.
C21_CursorHint == [][C21_HintStep /\ C21_AfterReleaseStep]_vars

\* A drag was ended by a release outside the hit region, and the hint asked
\* for since is the content's.
C21_Witness ==
    /\ event = LeftRelease
    /\ releases >= 1
    /\ ~InHitRegion(bounds, cursor_position[1])
    /\ Idle
    /\ interaction = Some([content |-> "Pointer", interaction |-> "Pointer"])

\* The hint asked for during a drag whose cursor has left the hit region is
\* resize-horizontal.
C21_WitnessDragging ==
    /\ Dragging
    /\ ~state.is_divider_hovered
    /\ interaction = Some([content |-> "Pointer",
                           interaction |-> "ResizingHorizontally"])

\* The widths the table's cells are built from are those one call of
\* distribute_fill_widths resolved for the table's columns.
ResolvedOnce ==
    calculated_widths = distribute_fill_widths(columns, min_width).calculated_widths

\* C22: column alignment.  The widths are resolved once per table build,
\* and for every column the header cell, the cell of every body row and the
\* footer cell (when the table shows a footer) have outer width equal to the
\* column's resolved current width, with or without a divider around the
\* cell and with or without footer content.
C22_ColumnsAligned ==
    Composed =>
        /\ ResolvedOnce
        /\ DOMAIN header = DOMAIN calculated_widths
        /\ Len(body) = rows
        /\ (footer # None) = footer_id
        /\ \A k \in DOMAIN calculated_widths :
              /\ header[k].width = calculated_widths[k].current
              /\ \A r \in DOMAIN body :
                    /\ DOMAIN body[r] = DOMAIN calculated_widths
                    /\ body[r][k].width = calculated_widths[k].current
              /\ footer # None =>
                    /\ DOMAIN footer[1] = DOMAIN calculated_widths
                    /\ footer[1][k].width = calculated_widths[k].current

\* A table of a fixed, a resizable and a fill column with a body row and a
\* footer: the resizable column's header and footer cells are in a divider,
\* its body cell is not, the other cells are bare; the fill column has no
\* footer content.  All cells of a column are equally wide.
C22_Witness ==
    /\ Composed
    /\ ResizeCallbacks
    /\ columns = <<Fixed(Px(50)), Resizable(Px(100), Px(0)), Fill(1, Px(0))>>
    /\ min_width = Px(300)
    /\ rows = 1
    /\ footer # None
    /\ footer[1][3].content = "space"
    /\ header[2].divider /\ footer[1][2].divider /\ ~body[1][2].divider
    /\ \A k \in 1 .. 3 :
          /\ header[k].width = <<Px(50), Px(100), Px(150)>>[k]
          /\ body[1][k].width = header[k].width
          /\ footer[1][k].width = header[k].width

\* The padding Element::from gives the table container for the widths
\* resolved.
TrailingPadding == table_padding(unused_width)

\* The width of the rendered table: its columns and the trailing padding.
RenderedWidth == ResolvedSum + TrailingPadding

\* The widths and minimums of the specs, and W, are non-negative.
NonNegativeSpecs ==
    /\ min_width >= 0
    /\ \A i \in DOMAIN columns :
          IF IsFill(columns[i]) THEN columns[i].minimum >= 0
                                ELSE SpecWidth(columns[i]) >= 0

C23_WitnessWider ==
    /\ Built
    /\ NonNegativeSpecs
    /\ FillColumns # {}
    /\ Remaining > 0
    /\ TrailingPadding = 0
    /\ RenderedWidth > min_width

\* The x of the divider strip before snapping
NominalX == bounds.x + bounds.width - Px(divider_width)

\* v is a whole number of pixels.
WholePixel(v) == v % Scale = 0

\* Width, y and height of the drawn rectangle: the divider width and the
\* vertical extent of the widget's bounds.
DrawnExtent ==
    /\ quad[1].bounds.width = Px(divider_width)
    /\ quad[1].bounds.y = bounds.y
    /\ quad[1].bounds.height = bounds.height

\* The claim as stated: x is the whole pixel nearest to the nominal x.
C24_SnappedToNearest ==
    quad # None =>
        /\ WholePixel(quad[1].bounds.x)
        /\ 2 * (quad[1].bounds.x - NominalX) <= Scale
        /\ 2 * (NominalX - quad[1].bounds.x) <= Scale
        /\ DrawnExtent

\* C24: the drawn divider rectangle has x equal to the floor of
\* (bounds.x + bounds.width - divider width), the largest whole pixel not
\* to the right of it, width equal to the divider width, and y and height
\* equal to those of the widget's bounds.
C24_SnappedToFloor ==
    quad # None =>
        /\ WholePixel(quad[1].bounds.x)
        /\ quad[1].bounds.x <= NominalX
        /\ NominalX < quad[1].bounds.x + Px(1)
        /\ DrawnExtent

\* The strip of the widget at x = 0.7, 12 wide, is nominally at 10.7 and
\* is drawn at 10.
C24_Witness ==
    /\ 10 * NominalX = Px(107)
    /\ quad # None
    /\ quad[1].bounds = Rectangle(Px(10), Px(0), Px(divider_width), Px(30))

----------------------------------------------------------------------------
(* Claims about the dividers of one row, checked under TableSpec *)

\* The cells of the header row that hold a divider
DividerCells == { k \in DOMAIN header : header[k].divider }

\* The x range of the hit region of cell k's divider: the strip and the
\* hover margin on both sides of it.
HitLeft(k) ==
    cell_x(header, k) + header[k].width - Px(divider_width) - Px(hover_margin)
HitRight(k) == cell_x(header, k) + header[k].width + Px(hover_margin)

\* The hit regions of cells j and k share no point (all cells of the row
\* have the same vertical extent).
HitRegionsDisjoint(j, k) == HitRight(j) <= HitLeft(k) \/ HitRight(k) <= HitLeft(j)

AllHitRegionsDisjoint ==
    \A j, k \in DividerCells : j # k => HitRegionsDisjoint(j, k)

\* The dividers the step puts into Dragging
NewlyDragging ==
    { k \in DividerCells :
        header_state[k].drag_origin = None /\ header_state'[k].drag_origin # None }

\* The column indices the drag messages name
DragIndices(msgs) ==
    { msgs[n].index : n \in { m \in DOMAIN msgs : msgs[m].msg = "on_column_drag" } }

\* One press puts at most one divider into Dragging.
OnePressOneDrag ==
    (event' = LeftPress /\ messages = <<>>) => Cardinality(NewlyDragging) <= 1

\* The claim as stated: the hit regions are disjoint whatever the widths of
\* the columns, one press starts at most one drag, and a move after one
\* press names at most one column.
C25_Step ==
    NoNegativeWidth =>
        /\ AllHitRegionsDisjoint
        /\ OnePressOneDrag
        /\ (IsMove(event') /\ messages = <<>> /\ presses <= 1) =>
               Cardinality(DragIndices(messages')) <= 1

C25_DisjointForAllWidths == [][C25_Step]_vars

\* The right edge of cell k, where its divider's strip ends
RightEdge(k) == cell_x(header, k) + header[k].width

\* The right edges of the cells with a divider are pairwise at least the
\* width of a hit region apart: the strip and both hover margins.
EdgesApart ==
    \A j, k \in DividerCells :
        j # k =>
            \/ RightEdge(j) - RightEdge(k) >= Px(divider_width) + 2 * Px(hover_margin)
            \/ RightEdge(k) - RightEdge(j) >= Px(divider_width) + 2 * Px(hover_margin)

\* With the edges that far apart the hit regions are disjoint and a press
\* starts at most one drag, and with at most one divider Dragging a move
\* names at most one column.
C25_DisjointStep ==
    /\ EdgesApart => (AllHitRegionsDisjoint /\ OnePressOneDrag)
    /\ (IsMove(event') /\ messages = <<>> /\ Cardinality(DraggingCells) <= 1) =>
           Cardinality(DragIndices(messages')) <= 1

\* The hit regions are the points the dividers take a press at: a press
\* in the hit region of a divider at rest puts it into Dragging.
C25_HitStep ==
    (event' = LeftPress /\ messages = <<>>) =>
        \A k \in DividerCells :
            (/\ header_state[k].drag_origin = None
             /\ InHitRegion(cell_bounds(header, k), cursor_position'[1]))
                <=> k \in NewlyDragging

\* C25: within one header row laid out from the resolved widths, the hit
\* regions of the dividers of distinct resizable columns are disjoint when
\* the right edges of the columns are at least the divider width plus both
\* hover margins apart; a single pointer press then puts at most one
\* divider into Dragging, and each move with one divider Dragging
\* publishes a resize-delta for at most one column index.
C25_DisjointWhenApart == [][C25_DisjointStep /\ C25_HitStep]_vars

\* Two resizable columns 100 wide: the hit regions [143,155) and [243,255)
\* are disjoint, the press at x=150 put the divider of column 1 alone into
\* Dragging and the move to x=170 published (1, +20) alone.
C25_Witness ==
    /\ columns = <<Fixed(Px(50)), Resizable(Px(100), Px(0)), Resizable(Px(100), Px(0))>>
    /\ DividerCells = {2, 3}
    /\ EdgesApart
    /\ AllHitRegionsDisjoint
    /\ DraggingCells = {2}
    /\ presses = 1
    /\ event = Some(CursorMoved(Point(Px(170), Px(10))))
    /\ messages = <<column_drag(1, Px(20))>>

\* Columns 100 and 5 wide: the hit regions [143,155) and [148,160) share
\* x=150, the one press there put both dividers into Dragging and the move
\* to x=170 published a delta for column 1 and for column 2.
C25_WitnessBothDragging ==
    /\ columns = <<Fixed(Px(50)), Resizable(Px(100), Px(0)), Resizable(Px(5), Px(0))>>
    /\ ~HitRegionsDisjoint(2, 3)
    /\ presses = 1
    /\ DraggingCells = {2, 3}
    /\ header_state[2].drag_origin = Some(Point(Px(150), Px(10)))
    /\ header_state[3].drag_origin = Some(Point(Px(150), Px(10)))
    /\ messages = <<column_drag(1, Px(20)), column_drag(2, Px(20))>>

====
